---- MODULE Spec2Model ----
(***************************************************************************)
(* A model of codemesh's execution sandbox (CodeExecutor, codeExecutor.ts) *)
(* and of its provider configuration loader (ConfigLoader, config.ts).     *)
(*                                                                         *)
(* Text is modelled as a sequence of string pieces whose concatenation is  *)
(* the text; a captured output line, an error message and a configuration  *)
(* string are all texts.                                                   *)
(***************************************************************************)
EXTENDS Integers, Sequences, FiniteSets, TLC

VARIABLES
    phase,        \* per execution: Idle, Compiling, Running, Awaiting, Settled,
                  \* Returned, Rejected
    source,       \* per execution: the submitted source (a name of Sources)
    tools,        \* per execution: the adapters passed to executeCode (key -> adapter)
    reqTimeout,   \* per execution: the timeoutMs of the execution request
    pc,           \* per execution: index of the next statement of the body
    logs,         \* per execution: the array `logs` of the executeCode call
    result,       \* per execution: the ExecutionResult executeCode returned
    reply,        \* per execution: the ExecutionResult runCode hands to its caller
    vm,           \* per execution: a VM (sandbox) was constructed
    inVmRun,      \* per execution: control is inside the synchronous vm.run call
    wait,         \* per execution: what the suspended code awaits
    conn,         \* per execution: connection of the adapter call it made
    timer,        \* per execution: the setTimeout callback it scheduled
    invoked,      \* per execution: adapters its code invoked
    calledKeys,   \* per execution: sandbox names its code called as a function
    elapsed,      \* per execution: wall-clock ms from submission to return
    cpu,          \* the execution holding the JavaScript thread, or None
    settled,      \* per execution: how the promise vm.run returned was settled
    microtasks,   \* the continuations queued to run, first in first out
    augs,         \* Augmentation Store: entries recorded per adapter
    config,       \* ConfigLoader.config
    ret,          \* what the last ConfigLoader call returned or raised
    lastReturned, \* the McpConfig the latest successful loadConfig returned
    input         \* the file at the path and process.env of a single load

execVars == <<phase, source, tools, reqTimeout, pc, logs, result, reply, vm,
              inVmRun, wait, conn, timer, invoked, calledKeys, elapsed, cpu, augs,
              settled, microtasks>>
configVars == <<config, ret, lastReturned, input>>
vars == <<execVars, configVars>>

None == "none"
Execs == {"e1", "e2"}

----------------------------------------------------------------------------
(* Bounds of the model *)

\* wall-clock time is followed up to this many ms per execution: an elapsed
\* time of MaxClock stands for MaxClock or more
MaxClock == 45000
\* augmentations recorded per tool
MaxAugs == 1
\* server entries in a configuration file
MaxServers == 2

\* durations by which the clock advances
ClockSteps == {15000}
\* timeoutMs values a request may carry
ReqTimeouts == {15000, 30000}

----------------------------------------------------------------------------
(* Program constants *)

\* new VM({ timeout: 30000, ... })
VmTimeoutMs == 30000

----------------------------------------------------------------------------
(* JavaScript values that the submitted code logs, returns or receives *)

JsValue(type, str, json) == [type |-> type, str |-> str, json |-> json]

Undefined == JsValue("undefined", "undefined", "undefined")
ValA == JsValue("string", "a", "\"a\"")
ValB == JsValue("string", "b", "\"b\"")
ValLate == JsValue("string", "late", "\"late\"")
ValRan == JsValue("string", "ran", "\"ran\"")
Val7 == JsValue("number", "7", "7")
\* the ToolResult the echo tool answers with
ValHi == JsValue("object", "[object Object]", "{\n  \"text\": \"hi\"\n}")
\* const o = {}; o.self = o: an object that has no JSON text
ValCycle == JsValue("object", "[object Object]", "")
\* Object.create(null): an object that has no string form
ValBare == JsValue("object", "", "{}")
\* a thrown string
ValOops == JsValue("string", "oops", "\"oops\"")

----------------------------------------------------------------------------
(* The sandbox console *)

\* String(arg) raises a TypeError: arg is an object without toString and
\* valueOf
StringThrows(arg) == arg.type = "object" /\ arg.str = ""

\* JSON.stringify(arg, null, 2) raises a TypeError: arg is an object that
\* refers to itself
StringifyThrows(arg) == arg.type = "object" /\ arg.json = ""

\* args.map(...) raises
MessageThrows(args) == \E i \in 1..Len(args) : StringifyThrows(args[i])

\* (typeof arg === 'object' ? JSON.stringify(arg, null, 2) : String(arg))
ArgText(arg) == IF arg.type = "object" THEN arg.json ELSE arg.str

RECURSIVE JoinSpace(_)
\* texts.join(' ')
JoinSpace(texts) ==
    IF Len(texts) = 0 THEN <<>>
    ELSE IF Len(texts) = 1 THEN <<texts[1]>>
    ELSE <<texts[1], " ">> \o JoinSpace(Tail(texts))

\* console.log: the message pushed on logs
LogMessage(args) == JoinSpace([i \in 1..Len(args) |-> ArgText(args[i])])

\* console.error: the message pushed on logs
ErrorMessage(args) == <<"ERROR: ">> \o LogMessage(args)

----------------------------------------------------------------------------
(* Submitted sources.  A body is the statement list of the async function  *)
(* the code is wrapped in.                                                 *)

Stmt(op, args, key, awaited, val, msg) ==
    [op |-> op, args |-> args, key |-> key, awaited |-> awaited, val |-> val, msg |-> msg]

Log(args) == Stmt("log", args, "", FALSE, Undefined, <<>>)
LogError(args) == Stmt("error", args, "", FALSE, Undefined, <<>>)
\* key(input), awaited or not
Call(key, awaited) == Stmt("call", <<>>, key, awaited, Undefined, <<>>)
\* await new Promise(() => {})
AwaitNever == Stmt("never", <<>>, "", TRUE, Undefined, <<>>)
\* await new Promise((r) => setTimeout(r, ms))
Delay == Stmt("delay", <<>>, "", TRUE, Undefined, <<>>)
\* setTimeout(() => console.log(...args), ms), not awaited
Defer(args) == Stmt("defer", args, "", FALSE, Undefined, <<>>)
\* throw new Error(msg)
Throw(msg) == Stmt("throw", <<>>, "", FALSE, Undefined, msg)
\* throw val, where val is not an Error
ThrowValue(val) == Stmt("throwval", <<>>, "", FALSE, val, <<>>)
\* while (true) {}
Loop == Stmt("loop", <<>>, "", FALSE, Undefined, <<>>)
Return(val) == Stmt("return", <<>>, "", FALSE, val, <<>>)

\* transpile: whether ts.transpile raises on this input ("throws") or returns
\* output text ("ok"); diags: what the TypeScript compiler reports for the text;
\* jsValid: whether the transpiled output is a well-formed script;
\* marker: the source holds the exploration marker (// EXPLORING)
Src(transpile, diags, jsValid, marker, body) ==
    [transpile |-> transpile, diags |-> diags, jsValid |-> jsValid,
     marker |-> marker, body |-> body]

Sources ==
    { "ret", "throw", "call", "explore", "exploreQuiet", "hang", "loop", "leak", "console",
      "unbound", "typeErr", "syntaxErr", "notText", "delay", "defer", "cycle",
      "cycleLog", "oops", "bare" }

SourceOf(name) ==
    CASE name = "ret" ->
           \* console.log("a", 7); return 7
           Src("ok", "none", TRUE, FALSE, <<Log(<<ValA, Val7>>), Return(Val7)>>)
      [] name = "throw" ->
           \* console.error("b"); throw new Error("boom")
           Src("ok", "none", TRUE, FALSE, <<LogError(<<ValB>>), Throw(<<"boom">>)>>)
      [] name = "call" ->
           \* const r = await echo_p({text:'hi'}); console.log(r); return r
           Src("ok", "none", TRUE, FALSE,
               <<Call("echo_p", TRUE), Log(<<ValHi>>), Return(ValHi)>>)
      [] name = "explore" ->
           \* // EXPLORING  const r = await echo_p({text:'hi'}); console.log(r); return r
           Src("ok", "none", TRUE, TRUE,
               <<Call("echo_p", TRUE), Log(<<ValHi>>), Return(ValHi)>>)
      [] name = "exploreQuiet" ->
           \* // EXPLORING  return await echo_p({text:'hi'})
           Src("ok", "none", TRUE, TRUE, <<Call("echo_p", TRUE), Return(ValHi)>>)
      [] name = "hang" ->
           \* console.log("a"); await new Promise(() => {})
           Src("ok", "none", TRUE, FALSE, <<Log(<<ValA>>), AwaitNever>>)
      [] name = "loop" ->
           \* console.log("b"); while (true) {}
           Src("ok", "none", TRUE, FALSE, <<Log(<<ValB>>), Loop>>)
      [] name = "leak" ->
           \* echo_p({text:'hi'}); while (true) {}
           Src("ok", "none", TRUE, FALSE, <<Call("echo_p", FALSE), Loop>>)
      [] name = "console" ->
           \* return await console({})
           Src("ok", "none", TRUE, FALSE, <<Call("console", TRUE), Return(ValHi)>>)
      [] name = "unbound" ->
           \* return await other_q({})
           Src("ok", "none", TRUE, FALSE, <<Call("other_q", TRUE), Return(ValHi)>>)
      [] name = "typeErr" ->
           \* const n: number = "x"; console.log("ran"); return 7
           Src("ok", "type", TRUE, FALSE, <<Log(<<ValRan>>), Return(Val7)>>)
      [] name = "syntaxErr" ->
           \* console.log("ran"); const x = ;
           Src("ok", "syntax", FALSE, FALSE, <<Log(<<ValRan>>)>>)
      [] name = "notText" ->
           \* the code argument is not a string: ts.transpile raises
           Src("throws", "none", FALSE, FALSE, <<>>)
      [] name = "delay" ->
           \* await new Promise((r) => setTimeout(r, 10)); console.log("late"); while (true) {}
           Src("ok", "none", TRUE, FALSE, <<Delay, Log(<<ValLate>>), Loop>>)
      [] name = "defer" ->
           \* setTimeout(() => console.log("late"), 10); console.log("a"); throw new Error("late boom")
           Src("ok", "none", TRUE, FALSE,
               <<Defer(<<ValLate>>), Log(<<ValA>>), Throw(<<"late boom">>)>>)
      [] name = "cycle" ->
           \* const o = {}; o.self = o; console.log("a"); console.error("b", o); return 7
           Src("ok", "none", TRUE, FALSE,
               <<Log(<<ValA>>), LogError(<<ValB, ValCycle>>), Return(Val7)>>)
      [] name = "cycleLog" ->
           \* const o = {}; o.self = o; console.log("a"); console.log(o); return 7
           Src("ok", "none", TRUE, FALSE,
               <<Log(<<ValA>>), Log(<<ValCycle>>), Return(Val7)>>)
      [] name = "oops" ->
           \* console.log("a"); throw "oops"
           Src("ok", "none", TRUE, FALSE, <<Log(<<ValA>>), ThrowValue(ValOops)>>)
      [] name = "bare" ->
           \* console.log("a"); throw Object.create(null)
           Src("ok", "none", TRUE, FALSE, <<Log(<<ValA>>), ThrowValue(ValBare)>>)

Body(e) == SourceOf(source[e]).body

----------------------------------------------------------------------------
(* Adapters and the sandbox namespace *)

AdapterIds == {"p.echo", "q.console"}

\* the records of adapters a caller passes to executeCode
EchoOnly == [k \in {"echo_p"} |-> "p.echo"]
EchoAndConsole ==
    [k \in {"echo_p", "console"} |-> IF k = "echo_p" THEN "p.echo" ELSE "q.console"]
ToolSets == {EchoOnly, EchoAndConsole}

\* the execution requests submitted: every source with the echo adapter and a
\* 30 s budget, the sources that call an adapter also with an adapter keyed
\* "console", the sources that never finish also with the shorter budget
Requests ==
    { r \in [source : Sources, tools : ToolSets, timeoutMs : ReqTimeouts] :
        /\ r.tools = EchoAndConsole => r.source \in {"call", "console"}
        /\ r.timeoutMs # VmTimeoutMs => r.source \in {"hang", "loop", "leak", "delay"} }

\* the keys the sandbox literal sets after the spread of tools
BuiltinKeys == {"console", "Promise", "setTimeout"}

\* sandbox: { ...tools, console: {...}, Promise, setTimeout }
Sandbox(ts) ==
    [k \in (DOMAIN ts) \cup BuiltinKeys |->
        IF k \in BuiltinKeys THEN [kind |-> "builtin", id |-> k]
        ELSE [kind |-> "adapter", id |-> ts[k]]]

\* what a name of the submitted code refers to
Binding(ts, k) ==
    IF k \in DOMAIN Sandbox(ts) THEN Sandbox(ts)[k] ELSE [kind |-> "unbound", id |-> k]

----------------------------------------------------------------------------
(* Execution results *)

\* how the promise of the async wrapper, which vm.run returns, was settled:
\* resolved with the code's return value, or rejected with what the code
\* threw (an Error with its message, or another value)
Unsettled == [state |-> "pending", value |-> Undefined, isError |-> FALSE, message |-> <<>>]
Fulfilled(v) == [state |-> "fulfilled", value |-> v, isError |-> FALSE, message |-> <<>>]
RejectedError(msg) == [state |-> "rejected", value |-> Undefined, isError |-> TRUE, message |-> msg]
RejectedValue(v) == [state |-> "rejected", value |-> v, isError |-> FALSE, message |-> <<>>]

\* a queued continuation: "resume" and "reject" continue the submitted code
\* after an await, "after" continues executeCode after await vm.run(...)
Job(e, kind) == [e |-> e, kind |-> kind]

NoResult == [pending |-> TRUE]

\* mutant of SuccessResult: the value is lost
SuccessResultNoValue(v) == [success |-> TRUE, result |-> Undefined]

\* return { success: true, result, logs }
SuccessResult(v) == [success |-> TRUE, result |-> v]

\* return { success: false, error: ..., logs }
FailureResult(msg) == [success |-> FALSE, error |-> msg]

\* the logs member of a success result is the array `logs` itself
SuccessLogs(e) == logs[e]

\* mutant of FailureLogs: the catch block returns no captured output
FailureLogsDropped(e) == <<>>

\* the logs member of a failure result is the array `logs` itself
FailureLogs(e) == logs[e]

\* the captured output lines of the result executeCode returned
ResultLogs(e) == IF result[e].success THEN SuccessLogs(e) ELSE FailureLogs(e)

\* throw new Error(`TypeScript compilation failed: ${error}`)
CompilationFailedText == <<"TypeScript compilation failed: ", "TypeError: text is not a string">>
\* vm.run on output that is no well-formed script
ScriptSyntaxErrorText == <<"Unexpected token ';'">>
\* The VM is vm2's: an error raised in the sandbox reaches the host as an
\* instance of the host's Error, so the catch block takes error.message, the
\* text without the error's name.
\* vm2 when the synchronous run exceeds the VM's timeout
ScriptTimeoutText == <<"Script execution timed out after 30000ms">>
NotDefinedText(k) == <<k, " is not defined">>
NotAFunctionText(k) == <<k, " is not a function">>
\* the message of the TypeError JSON.stringify raises for o with o.self = o
CircularStructureText ==
    <<"Converting circular structure to JSON",
      "\n    --> starting at object with constructor 'Object'",
      "\n    --- property 'self' closes the circle">>
ToolInvocationErrorText == <<"ToolInvocationError: transport failure">>
AugmentationRequiredText == <<"EXPLORATION MODE - AUGMENTATION REQUIRED">>

\* mutant of Gate: only a run that succeeded is refused
GateSuccessOnly(e, res) ==
    IF /\ SourceOf(source[e]).marker
       /\ res.success
       /\ \E a \in invoked[e] : augs[a] = 0
    THEN FailureResult(AugmentationRequiredText)
    ELSE res

\* the exploration gate around executeCode's result: code with the marker
\* that touched a tool for which no Augmentation exists is reported Failed
\* with AugmentationRequired, whatever the outcome of the run; the captured
\* output stays that of the run
Gate(e, res) ==
    IF /\ SourceOf(source[e]).marker
       /\ \E a \in invoked[e] : augs[a] = 0
    THEN FailureResult(AugmentationRequiredText)
    ELSE res

----------------------------------------------------------------------------
(* Configuration files.  A text is a sequence of pieces; the pieces of     *)
(* RefTokens are the substrings the pattern of expandEnvVar matches.       *)

\* A member of a server entry.  at says where the member is: "own" for a
\* member of the entry itself, "proto" for a member written in the object
\* that the entry's "__proto__" member holds, "inherited" for a property of
\* the entry's prototype.
Absent == [t |-> "absent", s |-> <<>>, a |-> <<>>, k |-> <<>>, at |-> "own"]
Str(text) == [t |-> "str", s |-> text, a |-> <<>>, k |-> <<>>, at |-> "own"]
Num == [t |-> "num", s |-> <<>>, a |-> <<>>, k |-> <<>>, at |-> "own"]
Arr(texts) == [t |-> "arr", s |-> <<>>, a |-> texts, k |-> <<>>, at |-> "own"]
\* an object of string members: keys[i] is the key of texts[i]
Obj(keys, texts) == [t |-> "obj", s |-> <<>>, a |-> texts, k |-> keys, at |-> "own"]
\* the member written as "__proto__": { key: member }
UnderProto(member) == [member EXCEPT !.at = "proto"]
\* the key JSON.parse creates as an own property and an assignment treats
\* as the prototype
ProtoKey == <<"__proto__">>

Server(id, name, type, url, command, env, timeout) ==
    [id |-> id, name |-> name, type |-> type, url |-> url, command |-> command,
     env |-> env, timeout |-> timeout]

NoServer == Server(Absent, Absent, Absent, Absent, Absent, Absent, Absent)

\* ${VAR} and ${VAR:-default} references, as the pattern's groups
RefTokens == {"${HOST}", "${ID}", "${ID:-a}"}
RefVar(tok) == IF tok = "${HOST}" THEN "HOST" ELSE "ID"
RefHasDefault(tok) == tok = "${ID:-a}"
RefDefault(tok) == IF tok = "${ID:-a}" THEN <<"a">> ELSE <<>>

EnvVars == {"HOST", "ID"}
Unset == [set |-> FALSE, val |-> <<>>]
Set(text) == [set |-> TRUE, val |-> text]
\* process.env at the time of a load
Envs ==
    { [v \in EnvVars |-> Unset],
      [v \in EnvVars |-> IF v = "HOST" THEN Set(<<"h">>) ELSE Set(<<"b">>)],
      [v \in EnvVars |-> Set(<<>>)] }

\* the server entries of the files a loader is given one after another
RegistryServers ==
    { Server(Str(<<"a">>), Str(<<"n">>), Str(<<"http">>), Str(<<"http://", "h">>), Absent, Absent, Num),
      Server(Str(<<"a">>), Str(<<"m">>), Str(<<"stdio">>), Absent, Arr(<< <<"node">>, <<"${HOST}">> >>),
             Obj(<< <<"${HOST}">> >>, << <<"x", "${ID:-a}">> >>), Absent),
      Server(Str(<<"b">>), Str(<<"n">>), Str(<<"websocket">>), Str(<<"ws://", "${HOST}">>), Absent, Absent, Absent),
      Server(Str(<<"${ID:-a}">>), Str(<<"n">>), Str(<<"http">>), Absent, Absent, Absent, Absent),
      Server(Str(<<"c">>), Str(<<"n">>), Str(<<"http">>), Str(<<"h">>), Absent, Absent, Absent) }

\* { "__proto__": { "id": "a" }, "name": "p", "type": "http" }
InheritedIdServer ==
    Server(UnderProto(Str(<<"a">>)), Str(<<"p">>), Str(<<"http">>), Absent, Absent, Absent, Absent)

\* the server entries configuration files are written from
ServerPool ==
    RegistryServers \cup
    { InheritedIdServer,
      Server(Str(<<"${ID}">>), Str(<<"n">>), Str(<<"stdio">>), Absent, Absent, Absent, Absent),
      Server(Absent, Str(<<"n">>), Str(<<"stdio">>), Absent, Arr(<< <<"node">> >>), Absent, Num),
      Server(Str(<<"c">>), Num, Str(<<"ftp">>), Absent, Absent, Absent, Absent),
      Server(Str(<<"d">>), Str(<<"n">>), Str(<<"stdio">>), Absent, Absent,
             Obj(<<ProtoKey, <<"K">> >>, << <<"x">>, <<"${HOST}">> >>), Absent) }

ServerLists == UNION { [1..n -> ServerPool] : n \in 0..MaxServers }

\* what is at the path: nothing, something readFileSync cannot read, text
\* that is not JSON, or a JSON document: one without "servers" member
\* ("noservers"), one whose "servers" member is an array ("json"), or one
\* whose only member is "__proto__": { "servers": array } ("protojson")
Files ==
    { [kind |-> "missing", servers |-> <<>>],
      [kind |-> "unreadable", servers |-> <<>>],
      [kind |-> "badjson", servers |-> <<>>],
      [kind |-> "noservers", servers |-> <<>>] }
        \cup { [kind |-> "json", servers |-> l] : l \in ServerLists }
        \cup { [kind |-> "protojson", servers |-> l] : l \in ServerLists }

\* the files a loader is given one after another
RegistryFiles ==
    {file \in Files :
        \/ /\ file.kind # "protojson"
           /\ \A i \in 1..Len(file.servers) : file.servers[i] \in RegistryServers
        \/ /\ Len(file.servers) <= 1
           /\ \A i \in 1..Len(file.servers) :
                 file.servers[i] \in RegistryServers \cup {InheritedIdServer}}

\* what a loader finds at join(pwd, '.codemesh', 'config.json')
ProjectFiles == {file \in RegistryFiles : Len(file.servers) <= 1}

\* the file and the environment of one load
Inputs == [file : Files, env : Envs]
\* no single load is followed
NoInput == [file |-> [kind |-> "none", servers |-> <<>>], env |-> [v \in EnvVars |-> Unset]]

----------------------------------------------------------------------------
(* ConfigLoader *)

RECURSIVE expandEnvVar(_, _)
\* every reference is replaced by the variable's value, else by the default,
\* else by the empty string
expandEnvVar(value, env) ==
    IF Len(value) = 0 THEN <<>>
    ELSE LET tok == Head(value)
             piece == IF tok \notin RefTokens THEN <<tok>>
                      ELSE IF env[RefVar(tok)].set THEN env[RefVar(tok)].val
                      ELSE IF RefHasDefault(tok) THEN RefDefault(tok)
                      ELSE <<>>
         IN piece \o expandEnvVar(Tail(value), env)

\* the indices of the members that expanded[key] = ... creates: for the key
\* "__proto__" and a string the assignment creates none
AssignedKeys(keys) ==
    SelectSeq([i \in 1..Len(keys) |-> i], LAMBDA i : keys[i] # ProtoKey)

\* expanded[key] = ... for the member held by "__proto__": it becomes a
\* property of the prototype of expanded
Assigned(at) == IF at = "proto" THEN "inherited" ELSE at

\* expandEnvVars on a member of a server entry: a string, an array of
\* strings, an object of strings, or another value
ExpandField(f, env) ==
    CASE f.t = "str" -> [f EXCEPT !.s = expandEnvVar(f.s, env), !.at = Assigned(f.at)]
      [] f.t = "arr" ->
            [f EXCEPT !.a = [i \in 1..Len(f.a) |-> expandEnvVar(f.a[i], env)],
                      !.at = Assigned(f.at)]
      [] f.t = "obj" ->
            LET kept == AssignedKeys(f.k)
            IN [f EXCEPT !.k = [j \in 1..Len(kept) |-> f.k[kept[j]]],
                         !.a = [j \in 1..Len(kept) |-> expandEnvVar(f.a[kept[j]], env)],
                         !.at = Assigned(f.at)]
      [] OTHER -> [f EXCEPT !.at = Assigned(f.at)]

\* expandEnvVars on a server entry, member by member
ExpandServer(srv, env) ==
    [k \in DOMAIN srv |-> ExpandField(srv[k], env)]

\* expandEnvVars on the array of server entries
expandEnvVars(servers, env) ==
    [i \in 1..Len(servers) |-> ExpandServer(servers[i], env)]

\* expandEnvVars on the parsed document: "servers" held by "__proto__"
\* becomes a property of the prototype of the expanded document
expandDocument(file, env) ==
    [kind |-> IF file.kind = "protojson" THEN "inherited" ELSE file.kind,
     servers |-> expandEnvVars(file.servers, env)]

\* z.string().url(): the text parses as a URL
IsUrl(text) == Len(text) >= 2 /\ text[1] \in {"http://", "ws://"}

\* McpServerConfigSchema accepts the entry
McpServerConfigSchema(srv) ==
    /\ srv.id.t = "str"
    /\ srv.name.t = "str"
    /\ srv.type.t = "str" /\ srv.type.s \in {<<"stdio">>, <<"http">>, <<"websocket">>}
    /\ srv.command.t \in {"absent", "arr"}
    /\ srv.env.t \in {"absent", "obj"}
    /\ srv.url.t = "absent" \/ (srv.url.t = "str" /\ IsUrl(srv.url.s))
    /\ srv.timeout.t \in {"absent", "num"}

\* the indices of the members z.record puts in its output: every key it
\* reads but "__proto__"
RecordKeys(keys) ==
    SelectSeq([i \in 1..Len(keys) |-> i], LAMBDA i : keys[i] # ProtoKey)

\* what z.object reads of an entry and puts in its output: own and
\* inherited properties, an object member through z.record; what the own
\* property "__proto__" of the entry holds is not read
ParsedServer(srv) ==
    [k \in DOMAIN srv |->
        IF srv[k].at = "proto" THEN Absent
        ELSE IF srv[k].t = "obj"
        THEN LET kept == RecordKeys(srv[k].k)
             IN [srv[k] EXCEPT !.k = [j \in 1..Len(kept) |-> srv[k].k[kept[j]]],
                               !.a = [j \in 1..Len(kept) |-> srv[k].a[kept[j]]],
                               !.at = "own"]
        ELSE [srv[k] EXCEPT !.at = "own"]]

\* the servers of the object McpConfigSchema.parse returns
Parsed(servers) == [i \in 1..Len(servers) |-> ParsedServer(servers[i])]

\* McpConfigSchema accepts the document: it reads "servers", own or
\* inherited, and every entry
McpConfigSchema(file, servers) ==
    /\ file.kind \in {"json", "inherited"}
    /\ \A i \in 1..Len(servers) : McpServerConfigSchema(ParsedServer(servers[i]))

NullConfig == [loaded |-> FALSE, servers |-> <<>>]
\* getServerConfig's null
NotFound == [hit |-> FALSE, server |-> NoServer]

\* a call returned: found is getServerConfig's value, list the servers of a
\* returned McpConfig or McpServerConfig[], flag validateConfig's boolean,
\* arg the serverId asked for
Returns(call, found) ==
    [call |-> call, arg |-> <<>>, error |-> "", found |-> found, list |-> <<>>,
     flag |-> FALSE]
\* a call raised new Error(error)
Raises(call, error) ==
    [call |-> call, arg |-> <<>>, error |-> error, found |-> NotFound, list |-> <<>>,
     flag |-> FALSE]

\* mutant of loadConfig: the parsed document is stored before it is validated
loadConfigStoresFirst(file, env) ==
    /\ IF file.kind \in {"missing", "unreadable", "badjson"}
       THEN /\ ret' = Raises("loadConfig", "Failed to load MCP configuration")
            /\ UNCHANGED <<config, lastReturned>>
       ELSE /\ config' = [loaded |-> TRUE,
                          servers |-> Parsed(expandEnvVars(file.servers, env))]
            /\ IF McpConfigSchema(expandDocument(file, env), config'.servers)
               THEN /\ ret' = [Returns("loadConfig", NotFound) EXCEPT !.list = config'.servers]
                    /\ lastReturned' = config'
               ELSE /\ ret' = Raises("loadConfig", "Invalid MCP configuration format")
                    /\ UNCHANGED lastReturned
    /\ UNCHANGED <<input, execVars>>

\* loadConfig(configPath) with process.env = env
loadConfig(file, env) ==
    /\ IF file.kind \in {"missing", "unreadable"}
       THEN /\ ret' = Raises("loadConfig", "Failed to load MCP configuration")
            /\ UNCHANGED <<config, lastReturned>>
       ELSE IF file.kind = "badjson"
       THEN /\ ret' = Raises("loadConfig", "Invalid JSON in MCP configuration")
            /\ UNCHANGED <<config, lastReturned>>
       ELSE LET expandedConfig == expandDocument(file, env)
            IN IF McpConfigSchema(expandedConfig, expandedConfig.servers)
               THEN /\ config' = [loaded |-> TRUE,
                                  servers |-> Parsed(expandedConfig.servers)]
                    /\ ret' = [Returns("loadConfig", NotFound)
                                  EXCEPT !.list = Parsed(expandedConfig.servers)]
                    /\ lastReturned' = config'
               ELSE /\ ret' = Raises("loadConfig", "Invalid MCP configuration format")
                    /\ UNCHANGED <<config, lastReturned>>
    /\ UNCHANGED <<input, execVars>>

\* loadConfigAuto() with file at join(pwd, '.codemesh', 'config.json'): its
\* own error when nothing is there, else loadConfig(configPath)
loadConfigAuto(file, env) ==
    IF file.kind = "missing"
    THEN /\ ret' = Raises("loadConfigAuto", "No .codemesh/config.json found in project root")
         /\ UNCHANGED <<config, lastReturned, input, execVars>>
    ELSE loadConfig(file, env)

\* mutant of getConfig: an empty configuration instead of the error
getConfigNoError ==
    /\ ret' = [Returns("getConfig", NotFound) EXCEPT !.list = config.servers]
    /\ UNCHANGED <<config, lastReturned, input, execVars>>

\* getConfig()
getConfig ==
    /\ ret' = IF ~config.loaded
              THEN Raises("getConfig", "No MCP configuration loaded. Call loadConfig() first.")
              ELSE [Returns("getConfig", NotFound) EXCEPT !.list = config.servers]
    /\ UNCHANGED <<config, lastReturned, input, execVars>>

\* mutant of FindServer: the first server whatever its id
FindServerAny(servers, serverId) ==
    IF Len(servers) = 0 THEN NotFound ELSE [hit |-> TRUE, server |-> servers[1]]

\* this.config.servers.find((server) => server.id === serverId) || null
FindServer(servers, serverId) ==
    LET hits == {i \in 1..Len(servers) : servers[i].id.s = serverId}
    IN IF hits = {} THEN NotFound
       ELSE [hit |-> TRUE, server |-> servers[CHOOSE i \in hits : \A j \in hits : i <= j]]

\* the ids the registry is asked for
QueryIds == {<<"a">>, <<"b">>, <<"z">>}

\* getServerConfig(serverId)
getServerConfig(serverId) ==
    /\ ret' = [Returns("getServerConfig",
                       IF ~config.loaded THEN NotFound
                       ELSE FindServer(config.servers, serverId))
                  EXCEPT !.arg = serverId]
    /\ UNCHANGED <<config, lastReturned, input, execVars>>

\* this.config.servers.filter((server) => server.type === type)
FilterServers(servers, type) ==
    SelectSeq(servers, LAMBDA srv : srv.type.s = <<type>>)

\* getHttpServers()
getHttpServers ==
    /\ ret' = [Returns("getHttpServers", NotFound)
                  EXCEPT !.list = IF ~config.loaded THEN <<>>
                                  ELSE FilterServers(config.servers, "http")]
    /\ UNCHANGED <<config, lastReturned, input, execVars>>

\* getStdioServers()
getStdioServers ==
    /\ ret' = [Returns("getStdioServers", NotFound)
                  EXCEPT !.list = IF ~config.loaded THEN <<>>
                                  ELSE FilterServers(config.servers, "stdio")]
    /\ UNCHANGED <<config, lastReturned, input, execVars>>

\* the values validateConfig is given: parsed JSON documents
Documents == {file \in Files : file.kind \in {"json", "noservers", "protojson"}}

\* ConfigLoader.validateConfig(configData)
validateConfig(configData) ==
    /\ ret' = [Returns("validateConfig", NotFound)
                  EXCEPT !.flag = McpConfigSchema(configData, configData.servers)]
    /\ UNCHANGED <<config, lastReturned, input, execVars>>

----------------------------------------------------------------------------
\* the executor and the loader after construction
Constructed ==
    /\ phase = [e \in Execs |-> "Idle"]
    /\ source = [e \in Execs |-> None]
    /\ tools = [e \in Execs |-> EchoOnly]
    /\ reqTimeout = [e \in Execs |-> 0]
    /\ pc = [e \in Execs |-> 1]
    /\ logs = [e \in Execs |-> <<>>]
    /\ result = [e \in Execs |-> NoResult]
    /\ reply = [e \in Execs |-> NoResult]
    /\ vm = [e \in Execs |-> FALSE]
    /\ inVmRun = [e \in Execs |-> FALSE]
    /\ wait = [e \in Execs |-> None]
    /\ conn = [e \in Execs |-> None]
    /\ timer = [e \in Execs |-> None]
    /\ invoked = [e \in Execs |-> {}]
    /\ calledKeys = [e \in Execs |-> {}]
    /\ elapsed = [e \in Execs |-> 0]
    /\ cpu = None
    /\ settled = [e \in Execs |-> Unsettled]
    /\ microtasks = <<>>
    /\ augs = [a \in AdapterIds |-> 0]
    /\ config = NullConfig
    /\ ret = Returns("none", NotFound)
    /\ lastReturned = NullConfig

Init ==
    /\ Constructed
    /\ input = NoInput

\* one load is followed: its file and environment are any of Inputs
LoadInit ==
    /\ Constructed
    /\ input \in Inputs

----------------------------------------------------------------------------
(* executeCode, one action per step of the asynchronous call *)

\* mutant of LogOwner: one array held by the singleton executor
LogOwnerShared(e) == "e1"

\* the array the sandbox console of execution e pushes on: the `logs` that
\* e's own call of executeCode declared
LogOwner(e) == e

PushLine(e, line) == logs' = [logs EXCEPT ![LogOwner(e)] = Append(@, line)]

\* executeCode returns res: runCode applies the exploration gate and replies
Finish(e, res) ==
    /\ phase' = [phase EXCEPT ![e] = "Returned"]
    /\ result' = [result EXCEPT ![e] = res]
    /\ reply' = [reply EXCEPT ![e] = Gate(e, res)]
    /\ inVmRun' = [inVmRun EXCEPT ![e] = FALSE]
    /\ wait' = [wait EXCEPT ![e] = None]
    /\ cpu' = None

\* an error raised inside the catch block leaves executeCode: the promise it
\* returned is rejected and no ExecutionResult exists
Reject(e) ==
    /\ phase' = [phase EXCEPT ![e] = "Rejected"]
    /\ inVmRun' = [inVmRun EXCEPT ![e] = FALSE]
    /\ wait' = [wait EXCEPT ![e] = None]
    /\ cpu' = None
    /\ UNCHANGED <<result, reply>>

\* the submitted code ends: the promise vm.run returned is settled, and
\* executeCode, suspended at await vm.run(...), goes on in a later microtask
Settle(e, outcome) ==
    /\ phase' = [phase EXCEPT ![e] = "Settled"]
    /\ settled' = [settled EXCEPT ![e] = outcome]
    /\ inVmRun' = [inVmRun EXCEPT ![e] = FALSE]
    /\ wait' = [wait EXCEPT ![e] = None]
    /\ cpu' = None
    /\ UNCHANGED <<result, reply>>

\* the code suspends at an await: vm.run has returned its promise
Suspend(e, on) ==
    /\ phase' = [phase EXCEPT ![e] = "Awaiting"]
    /\ wait' = [wait EXCEPT ![e] = on]
    /\ inVmRun' = [inVmRun EXCEPT ![e] = FALSE]
    /\ cpu' = None

\* runCode(sourceCode, toolKeys, timeoutMs) calls executeCode(code, tools),
\* which declares logs = []
RunCode(e, r) ==
    /\ cpu = None
    /\ phase[e] = "Idle"
    /\ phase' = [phase EXCEPT ![e] = "Compiling"]
    /\ source' = [source EXCEPT ![e] = r.source]
    /\ tools' = [tools EXCEPT ![e] = r.tools]
    /\ reqTimeout' = [reqTimeout EXCEPT ![e] = r.timeoutMs]
    /\ logs' = [logs EXCEPT ![e] = <<>>]
    /\ cpu' = e
    /\ UNCHANGED <<pc, result, reply, vm, inVmRun, wait, conn, timer, invoked,
                   calledKeys, elapsed, augs, settled, microtasks, configVars>>

\* compileTypeScript raises only when ts.transpile raises
CompileThrows(s) == SourceOf(s).transpile = "throws"

\* compileTypeScript, then new VM(...), then vm.run compiles the script; what
\* these raise is caught before executeCode has awaited anything
Compile(e) ==
    /\ cpu = e
    /\ phase[e] = "Compiling"
    /\ IF CompileThrows(source[e])
       THEN /\ Finish(e, FailureResult(CompilationFailedText))
            /\ UNCHANGED vm
       ELSE /\ vm' = [vm EXCEPT ![e] = TRUE]
            /\ IF SourceOf(source[e]).jsValid
               THEN /\ phase' = [phase EXCEPT ![e] = "Running"]
                    /\ inVmRun' = [inVmRun EXCEPT ![e] = TRUE]
                    /\ UNCHANGED <<result, reply, wait, cpu>>
               ELSE Finish(e, FailureResult(ScriptSyntaxErrorText))
    /\ UNCHANGED <<source, tools, reqTimeout, pc, logs, conn, timer, invoked,
                   calledKeys, elapsed, augs, settled, microtasks, configVars>>

AtStmt(e) == phase[e] = "Running" /\ cpu = e /\ pc[e] <= Len(Body(e))
Advance(e) == pc' = [pc EXCEPT ![e] = @ + 1]

\* a call of a console function: the message is built, then pushed as line; a
\* TypeError of JSON.stringify leaves the console function before the push
\* and, uncaught by the code, rejects the wrapper's promise
ConsoleCall(e, args, line) ==
    IF MessageThrows(args)
    THEN /\ Settle(e, RejectedError(CircularStructureText))
         /\ microtasks' = Append(microtasks, Job(e, "after"))
         /\ UNCHANGED <<pc, logs>>
    ELSE /\ PushLine(e, line)
         /\ Advance(e)
         /\ UNCHANGED <<phase, result, reply, inVmRun, wait, cpu, settled, microtasks>>

\* console.log(...args)
StepLog(e) ==
    /\ AtStmt(e) /\ Body(e)[pc[e]].op = "log"
    /\ ConsoleCall(e, Body(e)[pc[e]].args, LogMessage(Body(e)[pc[e]].args))
    /\ UNCHANGED <<source, tools, reqTimeout, vm, conn, timer, invoked, calledKeys,
                   elapsed, augs, configVars>>

\* console.error(...args)
StepError(e) ==
    /\ AtStmt(e) /\ Body(e)[pc[e]].op = "error"
    /\ ConsoleCall(e, Body(e)[pc[e]].args, ErrorMessage(Body(e)[pc[e]].args))
    /\ UNCHANGED <<source, tools, reqTimeout, vm, conn, timer, invoked, calledKeys,
                   elapsed, augs, configVars>>

\* key(input): the name is looked up in the sandbox; an adapter starts its
\* call; a name that is unbound or no function raises, uncaught by the code
StepCall(e) ==
    /\ AtStmt(e) /\ Body(e)[pc[e]].op = "call"
    /\ LET st == Body(e)[pc[e]]
           b == Binding(tools[e], st.key)
       IN /\ calledKeys' = [calledKeys EXCEPT ![e] = @ \cup {st.key}]
          /\ CASE b.kind = "unbound" ->
                    /\ Settle(e, RejectedError(NotDefinedText(st.key)))
                    /\ microtasks' = Append(microtasks, Job(e, "after"))
                    /\ UNCHANGED <<pc, conn, invoked>>
               [] b.kind = "builtin" ->
                    /\ Settle(e, RejectedError(NotAFunctionText(st.key)))
                    /\ microtasks' = Append(microtasks, Job(e, "after"))
                    /\ UNCHANGED <<pc, conn, invoked>>
               [] b.kind = "adapter" ->
                    /\ invoked' = [invoked EXCEPT ![e] = @ \cup {b.id}]
                    /\ conn' = [conn EXCEPT ![e] = "connecting"]
                    /\ IF st.awaited
                       THEN /\ Suspend(e, "call")
                            /\ UNCHANGED <<pc, result, reply, settled, microtasks>>
                       ELSE /\ Advance(e)
                            /\ UNCHANGED <<phase, result, reply, inVmRun, wait, cpu,
                                           settled, microtasks>>
    /\ UNCHANGED <<source, tools, reqTimeout, logs, vm, timer, elapsed, augs, configVars>>

\* await of a promise that never settles, or of a setTimeout-backed delay
StepAwait(e) ==
    /\ AtStmt(e) /\ Body(e)[pc[e]].op \in {"never", "delay"}
    /\ Suspend(e, Body(e)[pc[e]].op)
    /\ UNCHANGED <<source, tools, reqTimeout, pc, logs, result, reply, vm, conn,
                   timer, invoked, calledKeys, elapsed, augs, settled, microtasks,
                   configVars>>

\* setTimeout(callback, ms), not awaited
StepDefer(e) ==
    /\ AtStmt(e) /\ Body(e)[pc[e]].op = "defer"
    /\ timer' = [timer EXCEPT ![e] = "armed"]
    /\ Advance(e)
    /\ UNCHANGED <<phase, source, tools, reqTimeout, logs, result, reply, vm, inVmRun,
                   wait, conn, invoked, calledKeys, elapsed, cpu, augs, settled,
                   microtasks, configVars>>

\* an uncaught throw rejects the promise of the async wrapper
StepThrow(e) ==
    /\ AtStmt(e) /\ Body(e)[pc[e]].op \in {"throw", "throwval"}
    /\ LET st == Body(e)[pc[e]]
       IN Settle(e, IF st.op = "throw" THEN RejectedError(st.msg)
                    ELSE RejectedValue(st.val))
    /\ microtasks' = Append(microtasks, Job(e, "after"))
    /\ UNCHANGED <<source, tools, reqTimeout, pc, logs, vm, conn, timer, invoked,
                   calledKeys, elapsed, augs, configVars>>

\* return v, or the end of the body: the wrapper's promise is resolved with
\* v, or with undefined
StepReturn(e) ==
    /\ phase[e] = "Running" /\ cpu = e
    /\ \/ /\ pc[e] <= Len(Body(e)) /\ Body(e)[pc[e]].op = "return"
          /\ Settle(e, Fulfilled(Body(e)[pc[e]].val))
       \/ /\ pc[e] > Len(Body(e))
          /\ Settle(e, Fulfilled(Undefined))
    /\ microtasks' = Append(microtasks, Job(e, "after"))
    /\ UNCHANGED <<source, tools, reqTimeout, pc, logs, vm, conn, timer, invoked,
                   calledKeys, elapsed, augs, configVars>>

\* the VM's timeout applies to the synchronous vm.run call only
VmTimeoutDue(e) ==
    /\ AtStmt(e) /\ Body(e)[pc[e]].op = "loop"
    /\ inVmRun[e]
    /\ elapsed[e] >= VmTimeoutMs

\* vm.run raises the timeout error before executeCode has awaited: the catch
\* block
VmTimeout(e) ==
    /\ VmTimeoutDue(e)
    /\ Finish(e, FailureResult(ScriptTimeoutText))
    /\ UNCHANGED <<source, tools, reqTimeout, pc, logs, vm, conn, timer, invoked,
                   calledKeys, elapsed, augs, settled, microtasks, configVars>>

\* the first queued continuation, which runs when the thread is free
NextJob(e, kind) ==
    /\ cpu = None
    /\ microtasks # <<>>
    /\ Head(microtasks) = Job(e, kind)

\* the submitted code goes on after an await whose promise was resolved
Resume(e) ==
    /\ NextJob(e, "resume")
    /\ microtasks' = Tail(microtasks)
    /\ phase' = [phase EXCEPT ![e] = "Running"]
    /\ wait' = [wait EXCEPT ![e] = None]
    /\ cpu' = e
    /\ Advance(e)
    /\ UNCHANGED <<source, tools, reqTimeout, logs, result, reply, vm, inVmRun,
                   conn, timer, invoked, calledKeys, elapsed, augs, settled,
                   configVars>>

\* the await of the submitted code raises what the adapter rejected with,
\* uncaught by the code
AwaitThrows(e) ==
    /\ NextJob(e, "reject")
    /\ microtasks' = Append(Tail(microtasks), Job(e, "after"))
    /\ Settle(e, RejectedError(ToolInvocationErrorText))
    /\ UNCHANGED <<source, tools, reqTimeout, pc, logs, vm, conn, timer, invoked,
                   calledKeys, elapsed, augs, configVars>>

\* executeCode after await vm.run(...): the success return, or the catch
\* block with error instanceof Error ? error.message : String(error)
AfterRun(e) ==
    /\ NextJob(e, "after")
    /\ microtasks' = Tail(microtasks)
    /\ LET o == settled[e]
       IN IF o.state = "fulfilled" THEN Finish(e, SuccessResult(o.value))
          ELSE IF o.isError THEN Finish(e, FailureResult(o.message))
          ELSE IF StringThrows(o.value) THEN Reject(e)
          ELSE Finish(e, FailureResult(<<o.value.str>>))
    /\ UNCHANGED <<source, tools, reqTimeout, pc, logs, vm, conn, timer, invoked,
                   calledKeys, elapsed, augs, settled, configVars>>

----------------------------------------------------------------------------
(* The host's event loop: what runs while no submitted code holds the thread *)

\* a host task starts when the thread is free and no continuation is queued
Quiet == cpu = None /\ microtasks = <<>>

\* answers of adapter calls may arrive in one host task: an answer is taken
\* while the only continuations queued are those of other answers
AnswerTask ==
    /\ cpu = None
    /\ \A i \in 1..Len(microtasks) :
          /\ microtasks[i].kind \in {"resume", "reject"}
          /\ Body(microtasks[i].e)[pc[microtasks[i].e]].op = "call"

\* adapter step 2: the connection to the provider is open
ConnOpened(e) ==
    /\ Quiet
    /\ conn[e] = "connecting"
    /\ conn' = [conn EXCEPT ![e] = "open"]
    /\ UNCHANGED <<phase, source, tools, reqTimeout, pc, logs, result, reply, vm,
                   inVmRun, wait, timer, invoked, calledKeys, elapsed, cpu, augs,
                   settled, microtasks, configVars>>

\* adapter steps 3-5: the provider answers, the adapter closes the connection
\* and resolves; code awaiting it is queued to go on
ProviderResponds(e) ==
    /\ AnswerTask
    /\ conn[e] = "open"
    /\ conn' = [conn EXCEPT ![e] = "closed"]
    /\ IF phase[e] = "Awaiting" /\ wait[e] = "call"
       THEN /\ wait' = [wait EXCEPT ![e] = "answered"]
            /\ microtasks' = Append(microtasks, Job(e, "resume"))
       ELSE UNCHANGED <<wait, microtasks>>
    /\ UNCHANGED <<phase, source, tools, reqTimeout, pc, logs, result, reply, vm,
                   inVmRun, timer, invoked, calledKeys, elapsed, cpu, augs, settled,
                   configVars>>

\* adapter steps 3-4: transport failure after the retries, the adapter closes
\* the connection and rejects with ToolInvocationError; code awaiting it is
\* queued to fail
ProviderFails(e) ==
    /\ AnswerTask
    /\ conn[e] \in {"connecting", "open"}
    /\ conn' = [conn EXCEPT ![e] = "closed"]
    /\ IF phase[e] = "Awaiting" /\ wait[e] = "call"
       THEN /\ wait' = [wait EXCEPT ![e] = "answered"]
            /\ microtasks' = Append(microtasks, Job(e, "reject"))
       ELSE UNCHANGED <<wait, microtasks>>
    /\ UNCHANGED <<phase, source, tools, reqTimeout, pc, logs, result, reply, vm,
                   inVmRun, timer, invoked, calledKeys, elapsed, cpu, augs, settled,
                   configVars>>

\* the delay's timer fires and the awaiting code is queued to go on
ResumeDelay(e) ==
    /\ Quiet
    /\ phase[e] = "Awaiting" /\ wait[e] = "delay"
    /\ wait' = [wait EXCEPT ![e] = "answered"]
    /\ microtasks' = Append(microtasks, Job(e, "resume"))
    /\ UNCHANGED <<phase, source, tools, reqTimeout, pc, logs, result, reply, vm,
                   inVmRun, conn, timer, invoked, calledKeys, elapsed, cpu, augs,
                   settled, configVars>>

\* the arguments the scheduled callback logs
DeferArgs(e) ==
    LET i == CHOOSE j \in 1..Len(Body(e)) : Body(e)[j].op = "defer"
    IN Body(e)[i].args

\* the host runs a callback the code scheduled with setTimeout: it logs
TimerFire(e) ==
    /\ Quiet
    /\ timer[e] = "armed"
    /\ timer' = [timer EXCEPT ![e] = "fired"]
    /\ PushLine(e, LogMessage(DeferArgs(e)))
    /\ UNCHANGED <<phase, source, tools, reqTimeout, pc, result, reply, vm, inVmRun,
                   wait, conn, invoked, calledKeys, elapsed, cpu, augs, settled,
                   microtasks, configVars>>

Active(e) == phase[e] \notin {"Idle", "Returned", "Rejected"}

\* wall-clock time passes, for every call in progress alike, while code spins
\* or every execution is suspended; a due VM timeout is raised before more
\* time passes
Tick(d) ==
    /\ \/ /\ cpu # None
          /\ AtStmt(cpu) /\ Body(cpu)[pc[cpu]].op = "loop"
          /\ ~VmTimeoutDue(cpu)
       \/ /\ Quiet
          /\ \E e \in Execs : phase[e] = "Awaiting"
    /\ \E e \in Execs : Active(e) /\ elapsed[e] < MaxClock
    /\ elapsed' = [e \in Execs |->
                      IF ~Active(e) THEN elapsed[e]
                      ELSE IF elapsed[e] + d <= MaxClock THEN elapsed[e] + d
                      ELSE MaxClock]
    /\ UNCHANGED <<phase, source, tools, reqTimeout, pc, logs, result, reply, vm,
                   inVmRun, wait, conn, timer, invoked, calledKeys, cpu, augs,
                   settled, microtasks, configVars>>

\* recordAugmentation(providerId, toolName, ...): one more entry for the tool
RecordAugmentation(a) ==
    /\ Quiet
    /\ augs[a] < MaxAugs
    /\ augs' = [augs EXCEPT ![a] = @ + 1]
    /\ UNCHANGED <<phase, source, tools, reqTimeout, pc, logs, result, reply, vm,
                   inVmRun, wait, conn, timer, invoked, calledKeys, elapsed, cpu,
                   settled, microtasks, configVars>>

----------------------------------------------------------------------------
CodeStep(e) ==
    \/ Compile(e)
    \/ StepLog(e)
    \/ StepError(e)
    \/ StepCall(e)
    \/ StepAwait(e)
    \/ StepDefer(e)
    \/ StepThrow(e)
    \/ StepReturn(e)
    \/ VmTimeout(e)
    \/ Resume(e)
    \/ AwaitThrows(e)
    \/ AfterRun(e)

Next ==
    \/ \E e \in Execs, r \in Requests : RunCode(e, r)
    \/ \E e \in Execs : Compile(e)
    \/ \E e \in Execs : StepLog(e)
    \/ \E e \in Execs : StepError(e)
    \/ \E e \in Execs : StepCall(e)
    \/ \E e \in Execs : StepAwait(e)
    \/ \E e \in Execs : StepDefer(e)
    \/ \E e \in Execs : StepThrow(e)
    \/ \E e \in Execs : StepReturn(e)
    \/ \E e \in Execs : VmTimeout(e)
    \/ \E e \in Execs : Resume(e)
    \/ \E e \in Execs : AwaitThrows(e)
    \/ \E e \in Execs : AfterRun(e)
    \/ \E e \in Execs : ConnOpened(e)
    \/ \E e \in Execs : ProviderResponds(e)
    \/ \E e \in Execs : ProviderFails(e)
    \/ \E e \in Execs : ResumeDelay(e)
    \/ \E e \in Execs : TimerFire(e)
    \/ \E d \in ClockSteps : Tick(d)
    \/ \E a \in AdapterIds : RecordAugmentation(a)

Spec == Init /\ [][Next]_vars

ConfigNext ==
    \/ \E file \in RegistryFiles, env \in Envs : loadConfig(file, env)
    \/ \E file \in ProjectFiles, env \in Envs : loadConfigAuto(file, env)
    \/ \E serverId \in QueryIds : getServerConfig(serverId)
    \/ getConfig
    \/ getHttpServers
    \/ getStdioServers
    \/ \E configData \in Documents \cap RegistryFiles : validateConfig(configData)

ConfigSpec == Init /\ [][ConfigNext]_vars

\* one file under one environment, loaded and validated
LoadNext ==
    \/ loadConfig(input.file, input.env)
    \/ loadConfigAuto(input.file, input.env)
    \/ input.file \in Documents /\ validateConfig(input.file)

LoadSpec == LoadInit /\ [][LoadNext]_vars

\* an adapter call settles: it connects, then answers or fails within the
\* provider's timeout and retries
AdapterStep(e) == ConnOpened(e) \/ ProviderResponds(e) \/ ProviderFails(e)

\* The event loop runs every ready continuation, timer and timeout, adapter
\* calls settle, and time passes.
FairSpec ==
    /\ Spec
    /\ \A e \in Execs : WF_vars(CodeStep(e))
    /\ \A e \in Execs : WF_vars(AdapterStep(e))
    /\ \A e \in Execs : WF_vars(ResumeDelay(e))
    /\ \A e \in Execs : WF_vars(TimerFire(e))
    /\ \A d \in ClockSteps : WF_vars(Tick(d))

----------------------------------------------------------------------------
(* Properties of the execution sandbox *)

Returned(e) == phase[e] = "Returned"
Failed(e) == Returned(e) /\ ~result[e].success
\* the run ended in the TimedOut state
TimedOut(e) == Failed(e) /\ result[e].error = ScriptTimeoutText
\* the statement at which the body stopped
AtOp(e, op) == pc[e] <= Len(Body(e)) /\ Body(e)[pc[e]].op = op

\* the TypeScript compiler rejects the source: ts.transpile raises, or the
\* compiler reports syntax or type errors for it
CompileFails(s) == SourceOf(s).transpile = "throws" \/ SourceOf(s).diags # "none"

\* C1: if compiling the submitted source fails, the execution ends as Failed
\* with the compiler's diagnostic and never enters Running: no sandbox is
\* created, no submitted code runs and no adapter is invoked.
C1_CompileFailureNeverRuns ==
    \A e \in Execs :
        (phase[e] \notin {"Idle", "Compiling"} /\ CompileFails(source[e])) =>
            /\ Returned(e)
            /\ ~result[e].success
            /\ result[e].error = CompilationFailedText
            /\ ~vm[e]
            /\ pc[e] = 1
            /\ logs[e] = <<>>
            /\ invoked[e] = {}

\* the run is unfinished after more than its budget, whether the budget is the
\* request's timeoutMs or the VM's timeout
OverBudget(e) ==
    /\ Active(e)
    /\ elapsed[e] > reqTimeout[e]
    /\ elapsed[e] > VmTimeoutMs

\* C2: every run whose code does not finish within the time budget is forced
\* to TimedOut: execute eventually returns a failed result with a timeout
\* error, also when the code is suspended on an await that never completes.
C2_TimeoutForcesReturn ==
    \A e \in Execs : OverBudget(e) ~> TimedOut(e)

\* C3: the budget enforced on a run is the timeoutMs of its request: a run cut
\* off for exceeding its budget was cut off at its own timeoutMs.
C3_BudgetIsRequestTimeout ==
    \A e \in Execs : TimedOut(e) => elapsed[e] = reqTimeout[e]

RECURSIVE LinesOf(_)
\* the lines a statement list logs, in order
LinesOf(stmts) ==
    IF Len(stmts) = 0 THEN <<>>
    ELSE (CASE Head(stmts).op = "log" -> <<LogMessage(Head(stmts).args)>>
            [] Head(stmts).op = "error" -> <<ErrorMessage(Head(stmts).args)>>
            [] OTHER -> <<>>)
         \o LinesOf(Tail(stmts))

\* the lines the code logged before the point at which it stopped
LinesBeforeStop(e) == LinesOf(SubSeq(Body(e), 1, pc[e] - 1))

IsPrefix(a, b) == Len(a) <= Len(b) /\ SubSeq(b, 1, Len(a)) = a

\* C4: every result that reports failure carries all output lines logged
\* before the failure point, in the order they were logged.
C4_FailureCarriesOutput ==
    \A e \in Execs : Failed(e) => IsPrefix(LinesBeforeStop(e), ResultLogs(e))

\* a thrown error and a timeout, each after output was logged
C4_Witness ==
    \E e, f \in Execs :
        /\ Failed(e) /\ AtOp(e, "throw") /\ Len(LinesBeforeStop(e)) > 0
        /\ TimedOut(f) /\ Len(LinesBeforeStop(f)) > 0

\* the awaited adapter call of the body was rejected
AwaitRejected(e) ==
    /\ AtOp(e, "call")
    /\ Body(e)[pc[e]].awaited
    /\ Binding(tools[e], Body(e)[pc[e]].key).kind = "adapter"

\* C5: code that returns v gives success with result v and no error; code
\* that throws, or whose await is rejected, gives failure with the error's
\* message and no result.
C5_ReturnAndThrow ==
    \A e \in Execs :
        Returned(e) =>
            /\ AtOp(e, "return") =>
                  /\ result[e].success
                  /\ result[e].result = Body(e)[pc[e]].val
                  /\ DOMAIN result[e] = {"success", "result"}
            /\ AtOp(e, "throw") =>
                  /\ ~result[e].success
                  /\ result[e].error = Body(e)[pc[e]].msg
                  /\ DOMAIN result[e] = {"success", "error"}
            /\ AwaitRejected(e) =>
                  /\ ~result[e].success
                  /\ result[e].error = ToolInvocationErrorText
                  /\ DOMAIN result[e] = {"success", "error"}

\* one run returned a value, another threw, or its await was rejected
C5_Witness ==
    \E e, f \in Execs :
        /\ Returned(e) /\ AtOp(e, "return") /\ Body(e)[pc[e]].val = ValHi
        /\ Returned(f) /\ (AtOp(f, "throw") \/ AwaitRejected(f))

\* C6: the adapters the code can call are exactly the adapters passed: every
\* passed adapter is callable under its own key whatever the key, and no
\* adapter that was not passed is reached.
C6_ExactlyInjectedAdapters ==
    \A e \in Execs :
        /\ \A a \in invoked[e] : \E k \in DOMAIN tools[e] : tools[e][k] = a
        /\ \A k \in calledKeys[e] \cap DOMAIN tools[e] : tools[e][k] \in invoked[e]

\* the statements the code has executed
Executed(e) == SubSeq(Body(e), 1, pc[e] - 1)
\* the lines, return values and error messages the source of e can produce
OwnLines(e) ==
    {LinesOf(Body(e))[i] : i \in 1..Len(LinesOf(Body(e)))}
        \cup {LogMessage(Body(e)[i].args) : i \in {j \in 1..Len(Body(e)) : Body(e)[j].op = "defer"}}
OwnValues(e) ==
    {Undefined} \cup {Body(e)[i].val : i \in {j \in 1..Len(Body(e)) : Body(e)[j].op = "return"}}
OwnThrown(e) ==
    {Body(e)[i].msg : i \in {j \in 1..Len(Body(e)) : Body(e)[j].op = "throw"}}

C8_TimeoutClosesConnections ==
    \A e \in Execs : TimedOut(e) => conn[e] # "open"

\* the step in which the request of e is answered
Answered(e) == phase[e] # "Returned" /\ phase'[e] = "Returned"

\* the run touched a tool for which no Augmentation is recorded
Unaugmented(e) == \E a \in invoked[e] : augs[a] = 0

\* C9 as stated: code with the exploration marker that calls a tool with no
\* Augmentation is answered Failed with AugmentationRequired and a
\* non-empty captured output; once the tool has an Augmentation the same
\* code without the marker, when it returns, succeeds.
C9_AsStated ==
    \A e \in Execs :
        (Returned(e) /\ invoked[e] # {}) =>
            /\ (SourceOf(source[e]).marker /\ Unaugmented(e)) =>
                  /\ ~reply[e].success
                  /\ reply[e].error = AugmentationRequiredText
                  /\ ResultLogs(e) # <<>>
            /\ (~SourceOf(source[e]).marker /\ ~Unaugmented(e) /\ AtOp(e, "return")) =>
                  reply[e].success

\* C9: a run of code with the exploration marker that touched a tool with no
\* Augmentation is answered Failed with AugmentationRequired, whether its
\* code returned or failed, and the captured output is exactly the lines
\* the code logged (none when it logged nothing); a run answered when every
\* tool it touched has an Augmentation is answered with its own outcome, so
\* code that returns v, with or without the marker, succeeds with v.
C9_ExplorationGate ==
    [][\A e \in Execs :
          (Answered(e) /\ invoked[e] # {}) =>
              /\ (SourceOf(source[e]).marker /\ Unaugmented(e)) =>
                    /\ ~reply'[e].success
                    /\ reply'[e].error = AugmentationRequiredText
                    /\ ResultLogs(e)' = LinesOf(Executed(e))
              /\ (~Unaugmented(e) /\ AtOp(e, "return")) =>
                    /\ reply'[e].success
                    /\ reply'[e].result = Body(e)[pc[e]].val
              /\ (~Unaugmented(e) /\ AwaitRejected(e)) =>
                    /\ ~reply'[e].success
                    /\ reply'[e].error = ToolInvocationErrorText]_vars

\* an exploring run that logged the tool's answer was refused with that
\* line, one augmentation was recorded for its tool, and the same code
\* without the marker then succeeded with the tool's answer
C9_Witness ==
    \E e, f \in Execs :
        /\ Returned(e) /\ SourceOf(source[e]).marker
        /\ ~reply[e].success /\ reply[e].error = AugmentationRequiredText
        /\ ResultLogs(e) = <<LogMessage(<<ValHi>>)>>
        /\ \A a \in invoked[e] : augs[a] = 1
        /\ Returned(f) /\ ~SourceOf(source[f]).marker
        /\ Body(f) = Body(e) /\ invoked[f] = invoked[e]
        /\ reply[f].success /\ reply[f].result = ValHi

----------------------------------------------------------------------------
(* Properties of the provider registry *)

\* C10: loading a configuration in which two descriptors have the same id
\* always fails; after any successful load all provider ids in the registry
\* are pairwise distinct.
C10_UniqueIds ==
    config.loaded =>
        \A i, j \in 1..Len(config.servers) :
            i # j => config.servers[i].id # config.servers[j].id

\* C11: after a successful load, resolving the id of any loaded descriptor d
\* (getServerConfig) returns exactly d, not a different descriptor.
C11_ResolveReturnsLoaded ==
    (ret.call = "getServerConfig" /\ config.loaded) =>
        \A i \in 1..Len(config.servers) :
            config.servers[i].id.s = ret.arg =>
                ret.found = [hit |-> TRUE, server |-> config.servers[i]]

\* the descriptor has what its transport kind needs: an address for http and
\* websocket, a launch command for stdio
HasConnectionInfo(srv) ==
    /\ srv.type.s \in {<<"http">>, <<"websocket">>} => srv.url.t = "str"
    /\ srv.type.s = <<"stdio">> => (srv.command.t = "arr" /\ Len(srv.command.a) > 0)

\* C12: a descriptor of kind http or websocket without an address, or of
\* kind stdio without a launch command, is never present in a loaded
\* registry: registering it fails.
C12_TransportRequirements ==
    config.loaded =>
        \A i \in 1..Len(config.servers) : HasConnectionInfo(config.servers[i])

\* the text holds a reference whose variable has no value and which gives no
\* default
Unresolved(text, env) ==
    \E j \in 1..Len(text) :
        /\ text[j] \in RefTokens
        /\ ~env[RefVar(text[j])].set
        /\ ~RefHasDefault(text[j])

\* the string values of a server entry
StringsOf(srv) ==
    {srv[k].s : k \in {m \in DOMAIN srv : srv[m].t = "str"}}
        \cup UNION {{srv[k].a[j] : j \in 1..Len(srv[k].a)} : k \in DOMAIN srv}

FileUnresolved(file, env) ==
    \E i \in 1..Len(file.servers) :
        \E text \in StringsOf(file.servers[i]) : Unresolved(text, env)

\* C13: loading a configuration with a reference ${VAR} where VAR has no
\* value and no default is given fails with a configuration error; it never
\* loads with the reference silently replaced.
C13_UnresolvedReferenceFails ==
    (ret.call = "loadConfig" /\ FileUnresolved(input.file, input.env)) =>
        /\ ret.error # ""
        /\ ~config.loaded

HasReference(text) == \E j \in 1..Len(text) : text[j] \in RefTokens

\* the entry as written violates the descriptor schema: id, name or type is
\* missing or not a string, a member has the wrong type, the url is
\* malformed, or the transport kind is not one of the three
ViolatesSchema(entry) ==
    LET srv == [k \in DOMAIN entry |-> IF entry[k].at = "proto" THEN Absent ELSE entry[k]]
    IN
    \/ \E k \in {"id", "name", "type"} : srv[k].t # "str"
    \/ srv.command.t \notin {"absent", "arr"}
    \/ srv.timeout.t \notin {"absent", "num"}
    \/ srv.url.t \notin {"absent", "str"}
    \/ srv.url.t = "str" /\ ~HasReference(srv.url.s) /\ ~IsUrl(srv.url.s)
    \/ srv.type.t = "str" /\ ~HasReference(srv.type.s)
          /\ srv.type.s \notin {<<"stdio">>, <<"http">>, <<"websocket">>}

FileViolatesSchema(file) ==
    \/ file.kind \in {"noservers", "protojson"}
    \/ file.kind = "json" /\ \E i \in 1..Len(file.servers) : ViolatesSchema(file.servers[i])

\* C14: loading a configuration that violates the descriptor schema or names
\* an unknown transport kind fails with a configuration error and returns no
\* registry.
C14_SchemaViolationFails ==
    (ret.call = "loadConfig" /\ FileViolatesSchema(input.file)) =>
        /\ ret.error = "Invalid MCP configuration format"
        /\ ret.list = <<>>
        /\ ~config.loaded

RECURSIVE Concat(_)
Concat(texts) == IF Len(texts) = 0 THEN <<>> ELSE Head(texts) \o Concat(Tail(texts))

\* the text with each reference replaced by the variable's value when the
\* variable is defined, otherwise by the reference's default
Replaced(text, env) ==
    Concat([j \in 1..Len(text) |->
              IF text[j] \notin RefTokens THEN <<text[j]>>
              ELSE IF env[RefVar(text[j])].set THEN env[RefVar(text[j])].val
              ELSE RefDefault(text[j])])

\* the member g is the member f with its string values substituted
SubstitutedMember(f, g, env) ==
    /\ g.t = f.t
    /\ g.k = f.k
    /\ IF f.t = "str" THEN Unresolved(f.s, env) \/ g.s = Replaced(f.s, env)
       ELSE g.s = f.s
    /\ Len(g.a) = Len(f.a)
    /\ \A j \in 1..Len(f.a) :
          IF f.t \in {"arr", "obj"}
          THEN Unresolved(f.a[j], env) \/ g.a[j] = Replaced(f.a[j], env)
          ELSE g.a[j] = f.a[j]

\* the document validated is the substituted one
SubstitutedDocument(file, env) ==
    [i \in 1..Len(file.servers) |->
        [k \in DOMAIN file.servers[i] |->
            LET f == file.servers[i][k]
            IN [f EXCEPT !.s = IF f.t = "str" THEN Replaced(f.s, env) ELSE f.s,
                         !.a = IF f.t \in {"arr", "obj"}
                               THEN [j \in 1..Len(f.a) |-> Replaced(f.a[j], env)]
                               ELSE f.a]]]

\* C15: during load every string value of the configuration, in nested
\* objects and arrays too, has each ${VAR} and ${VAR:-default} replaced by
\* the value of VAR when VAR is defined (also as the empty string) and
\* otherwise by the default; strings without references, non-string values
\* and object keys are unchanged; the schema validates the substituted
\* document.
C15_Substitution ==
    (ret.call = "loadConfig" /\ input.file.kind = "json") =>
        /\ ret.error = "" =>
              /\ config.loaded
              /\ Len(config.servers) = Len(input.file.servers)
              /\ \A i \in 1..Len(config.servers) :
                    \A k \in DOMAIN input.file.servers[i] :
                        SubstitutedMember(input.file.servers[i][k],
                                          config.servers[i][k], input.env)
        /\ ~FileUnresolved(input.file, input.env) =>
              (ret.error = "" <=>
                  McpConfigSchema(input.file, SubstitutedDocument(input.file, input.env)))

\* C16: resolving an id that no loaded descriptor has returns null, never a
\* descriptor or an exception, also when no configuration is loaded.
C16_NotFound ==
    (/\ ret.call = "getServerConfig"
     /\ \A i \in 1..Len(config.servers) : config.servers[i].id.s # ret.arg) =>
        /\ ret.error = ""
        /\ ret.found = NotFound

\* a registry with descriptors was asked for an id none of them has
C16_Witness ==
    /\ ret.call = "getServerConfig"
    /\ config.loaded /\ Len(config.servers) = 2
    /\ \A i \in 1..2 : config.servers[i].id.s # ret.arg
    /\ ret.found = NotFound

\* C17: getConfig returns the configuration the most recent successful
\* loadConfig produced; while no loadConfig has succeeded getConfig raises
\* an error, getServerConfig returns null and getHttpServers and
\* getStdioServers return empty lists.
C17_GetConfig ==
    /\ ret.call = "getConfig" =>
          IF lastReturned.loaded
          THEN ret.error = "" /\ ret.list = lastReturned.servers
          ELSE ret.error = "No MCP configuration loaded. Call loadConfig() first."
    /\ ~lastReturned.loaded =>
          /\ ret.call = "getServerConfig" => (ret.error = "" /\ ret.found = NotFound)
          /\ ret.call \in {"getHttpServers", "getStdioServers"} =>
                (ret.error = "" /\ ret.list = <<>>)

\* getConfig returned the two servers of the loaded configuration
C17_Witness ==
    /\ ret.call = "getConfig" /\ ret.error = ""
    /\ Len(ret.list) = 2

\* C18: a loadConfig call that fails leaves the loaded configuration as it
\* was, so every query returns what it returned before.
C18_FailedLoadKeepsConfig ==
    [][(ret'.call = "loadConfig" /\ ret'.error # "") => config' = config]_vars

\* a load failed while a configuration was loaded
C18_Witness ==
    /\ ret.call = "loadConfig" /\ ret.error = "Invalid MCP configuration format"
    /\ config.loaded /\ Len(config.servers) > 0

\* loadConfig of a file holding the data would succeed
LoadWouldSucceed(file, env) ==
    McpConfigSchema(expandDocument(file, env), expandEnvVars(file.servers, env))

\* C19: validateConfig(data) returns true exactly when loadConfig of a file
\* holding the same data would succeed; it never raises and never changes
\* the loaded configuration.
C19_ValidateMatchesLoad ==
    ret.call = "validateConfig" =>
        /\ ret.error = ""
        /\ ret.flag <=> LoadWouldSucceed(input.file, input.env)

----------------------------------------------------------------------------
(* Properties of the captured output *)

\* the console calls the code of e has made, in call order: those of the
\* statements it has executed, the call at which it stopped if it stopped
\* inside one, and the call of its timer callback once that has run
CallsMade(e) ==
    SelectSeq(Executed(e), LAMBDA st : st.op \in {"log", "error"})
        \o (IF /\ phase[e] \in {"Settled", "Returned", "Rejected"}
               /\ vm[e] /\ SourceOf(source[e]).jsValid
               /\ (AtOp(e, "log") \/ AtOp(e, "error"))
            THEN <<Body(e)[pc[e]]>> ELSE <<>>)
        \o (IF timer[e] = "fired"
            THEN <<Log(Body(e)[CHOOSE i \in 1..Len(Body(e)) : Body(e)[i].op = "defer"].args)>>
            ELSE <<>>)

\* the arguments stringified, objects as their indented JSON text, and
\* joined by single spaces, with the prefix of console.error
LineOf(st) ==
    LET texts == [i \in 1..Len(st.args) |->
                    IF st.args[i].type = "object" THEN st.args[i].json ELSE st.args[i].str]
        joined == [i \in 1..(2 * Len(texts) - 1) |->
                    IF i % 2 = 1 THEN texts[(i + 1) \div 2] ELSE " "]
    IN (IF st.op = "error" THEN <<"ERROR: ">> ELSE <<>>) \o joined

\* C20: each console.log or console.error call of the running code appends
\* exactly one line after the lines of all earlier calls: its arguments
\* stringified (objects as indented JSON) and joined by single spaces, with
\* "ERROR: " in front for console.error; the captured output is the sequence
\* of these lines in call order.
C20_OneLinePerCall ==
    \A e \in Execs :
        phase[e] # "Idle" =>
            /\ Len(logs[e]) = Len(CallsMade(e))
            /\ \A i \in 1..Len(logs[e]) : logs[e][i] = LineOf(CallsMade(e)[i])

\* C21: once executeCode has returned a result, the captured output lines of
\* that result never change, even if a callback the code scheduled runs and
\* logs after the return.
C21_ResultLogsFrozen ==
    [][\A e \in Execs : Returned(e) => ResultLogs(e)' = ResultLogs(e)]_vars

\* the call of executeCode has completed: its promise is settled
Completed(e) == phase[e] \in {"Returned", "Rejected"}

\* C22: executeCode never raises or rejects: whenever the call completes it
\* yields an ExecutionResult, and every compile, runtime, adapter or timeout
\* failure is a result with success false and an error message.
C22_NeverRejects ==
    \A e \in Execs :
        Completed(e) =>
            /\ Returned(e)
            /\ result[e] # NoResult
            /\ ~result[e].success => Len(result[e].error) > 0

====
